---- MODULE Spec2Model ----
(***************************************************************************)
(* Book_Tracker: the middleware (src/middleware.ts) and the route handlers *)
(* of /api/books (src/src/app/api/books/route.ts) and /api/books/{id}      *)
(* (src/src/app/api/books/[id]/route.ts) over the `books` table.           *)
(*                                                                         *)
(* A string is a sequence of characters, so that trim() and startsWith()   *)
(* are computed.  A pathname is a sequence of tokens, each token a piece   *)
(* of the pathname that holds no "/" or the separator "/" itself:          *)
(* "/apix" is <<"/", "api", "x">> and "/api/x" is <<"/", "api", "/", "x">>.*)
(***************************************************************************)
EXTENDS Integers, Sequences, FiniteSets, TLC

VARIABLES
    books,      \* the rows of table `books`
    nextId,     \* how many rows were ever inserted (ids and created_at are server-generated)
    pend,       \* the collection DELETE request between its two queries, if any
    last        \* the response on its way to the client, and the request it answers

vars == <<books, nextId, pend, last>>

\* ------------------------------------------------------------------ bounds
\* rows ever inserted
MaxBooks == 2

\* ------------------------------------------------------------------ values
Null == "null"
Users == {"u1", "u2"}
\* the list with its last entry forgotten
ValidStatuses_short == {"reading", "completed"}
\* ['reading', 'completed', 'wishlist']
ValidStatuses == {"reading", "completed", "wishlist"}

\* the id the server generates for the n-th inserted row
GenId(n) == ToString(n)
IdsUpTo(n) == {GenId(i) : i \in 1..n}

\* ------------------------------------------------------------------ strings
Space == " "
\* String.prototype.trim(): strip leading and trailing white space
RECURSIVE TrimStart(_)
TrimStart(s) == IF s # <<>> /\ Head(s) = Space THEN TrimStart(Tail(s)) ELSE s
RECURSIVE TrimEnd(_)
TrimEnd(s) ==
    IF s # <<>> /\ s[Len(s)] = Space THEN TrimEnd(SubSeq(s, 1, Len(s) - 1)) ELSE s
trim(s) == TrimEnd(TrimStart(s))

\* a string-valued field that is absent (undefined): no character sequence
NoStr == <<"undefined">>
\* an absent status value or query parameter
NoVal == "undefined"
\* a test for absence alone, which lets "" through
Truthy_defined(s) == s # NoStr
\* JavaScript truthiness of a string-valued field: absent and "" are falsy
Truthy(s) == s # NoStr /\ s # <<>>
\* JavaScript truthiness of a status value
TruthyVal(v) == v # NoVal /\ v # ""

\* String.prototype.startsWith on token sequences
startsWith(s, p) == Len(s) >= Len(p) /\ SubSeq(s, 1, Len(p)) = p

\* ------------------------------------------------------------------ responses
\* NextResponse.json(body, {status}); kind names the key of the JSON body, data
\* lists the rows it carries
Json(code, kind, text, data) == [code |-> code, kind |-> kind, text |-> text, data |-> data]
Unauthorized == Json(401, "error", "Unauthorized", <<>>)
InternalError == Json(500, "error", "Internal server error", <<>>)
BackendError(msg) == Json(500, "error", msg, <<>>)
\* NextResponse.redirect(url): status 307
Redirect(to) == Json(307, "redirect", to, <<>>)
\* NextResponse.next(): the request goes on to the page or the route handler
PassThrough == Json(0, "next", "", <<>>)

\* ------------------------------------------------------------------ backend
\* supabase.auth.getSession(): {data: {session}, error}; cred is the identity the
\* request's cookies carry (Null: none), fault a failure of the identity provider
getSession(cred, fault) ==
    IF fault THEN [session |-> Null, error |-> TRUE]
    ELSE [session |-> cred, error |-> FALSE]

\* the message of a failed query
FaultMsg == "backend fault"
\* .single(): exactly one row, or the error PGRST116
NoSingleRow == "PGRST116"
single(rows) ==
    IF Cardinality(rows) = 1 THEN [data |-> rows, error |-> Null]
    ELSE [data |-> {}, error |-> NoSingleRow]

\* .eq('id', id) alone: the owner filter forgotten
OwnRow_anyOwner(bks, id, uid) == {r \in bks : r.id = id}
\* .eq('id', id).eq('user_id', uid)
OwnRow(bks, id, uid) == {r \in bks : r.id = id /\ r.user_id = uid}

\* .order('created_at', {ascending: false}): the rows as a list, newest first
RECURSIVE OrderDesc(_)
OrderDesc(rows) ==
    IF rows = {} THEN <<>>
    ELSE LET top == CHOOSE r \in rows : \A q \in rows : q.created_at <= r.created_at
         IN <<top>> \o OrderDesc(rows \ {top})

\* lower-casing, one character at a time
Lower(c) == IF c = "A" THEN "a" ELSE c
LowerStr(s) == [i \in 1..Len(s) |-> Lower(s[i])]
\* column ILIKE '%pat%': pat occurs in the column's value, letter case ignored
ilike(s, pat) ==
    \E i \in 0..(Len(s) - Len(pat)) :
        SubSeq(LowerStr(s), i + 1, i + Len(pat)) = LowerStr(pat)

\* ------------------------------------------------------------------ middleware
Root == <<"/">>
\* one source of the matcher, '/<root>/:path*': /<root> and everything under /<root>/
MatchesSource(pathname, root) ==
    /\ startsWith(pathname, <<"/", root>>)
    /\ (Len(pathname) = 2 \/ pathname[3] = "/")
\* config.matcher: ['/dashboard/:path*', '/auth/:path*', '/api/:path*']
config_matcher(pathname) ==
    \E root \in {"dashboard", "auth", "api"} : MatchesSource(pathname, root)

\* middleware(req): auth is what getSession() returned, of which only data.session is read
middleware(auth, pathname) ==
    IF auth.session = Null /\ startsWith(pathname, <<"/", "dashboard">>)
    THEN Redirect("/auth/login")
    ELSE IF auth.session = Null /\ startsWith(pathname, <<"/", "api">>)
    THEN Unauthorized
    ELSE IF auth.session # Null /\ startsWith(pathname, <<"/", "auth">>)
    THEN Redirect("/dashboard")
    ELSE PassThrough

\* the middleware run on every pathname, the matcher dropped
Edge_unmatched(auth, pathname) == middleware(auth, pathname)
\* what the edge does with a request before any page or route handler: the
\* middleware runs on the pathnames the matcher selects, and only on those
Edge(auth, pathname) ==
    IF config_matcher(pathname) THEN middleware(auth, pathname) ELSE PassThrough

\* ------------------------------------------------------------------ /api/books
\* what a handler hands back: the response and the table after it
Out(resp, bks) == [resp |-> resp, books |-> bks]

\* GET /api/books?status=&search=
GET(bks, auth, status, search, fault) ==
    IF auth.error \/ auth.session = Null THEN Out(Unauthorized, bks)
    ELSE LET own == {r \in bks : r.user_id = auth.session}
             byStatus == IF TruthyVal(status) /\ status \in ValidStatuses
                         THEN {r \in own : r.status = status}
                         ELSE own
             bySearch == IF Truthy(search)
                         THEN {r \in byStatus : ilike(r.title, search) \/ ilike(r.author, search)}
                         ELSE byStatus
         IN IF fault THEN Out(BackendError(FaultMsg), bks)
            ELSE Out(Json(200, "books", "", OrderDesc(bySearch)), bks)

\* the insert taking the owner from the body when the body names one
NewRow_bodyOwner(n, uid, body) ==
    [id |-> GenId(n), user_id |-> IF body.user_id # NoVal THEN body.user_id ELSE uid,
     title |-> trim(body.title), author |-> trim(body.author), status |-> body.status,
     created_at |-> n]
\* the row POST inserts as the n-th row of the table: id and created_at are the server's
NewRow(n, uid, body) ==
    [id |-> GenId(n), user_id |-> uid, title |-> trim(body.title),
     author |-> trim(body.author), status |-> body.status, created_at |-> n]

\* POST /api/books; n rows were inserted before
POST(bks, n, auth, body, fault) ==
    IF auth.error \/ auth.session = Null THEN Out(Unauthorized, bks)
    ELSE IF ~body.json THEN Out(InternalError, bks)
    ELSE IF ~Truthy(body.title) \/ ~Truthy(body.author)
    THEN Out(Json(400, "error", "Title and author are required", <<>>), bks)
    ELSE IF body.status \notin ValidStatuses
    THEN Out(Json(400, "error", "Invalid status", <<>>), bks)
    ELSE IF fault THEN Out(BackendError(FaultMsg), bks)
    ELSE LET row == NewRow(n + 1, auth.session, body)
         IN Out(Json(201, "book", "", <<row>>), bks \cup {row})

\* const id = pathname.split('/').pop()
PopSegment(pathname) ==
    IF pathname[Len(pathname)] = "/" THEN "" ELSE pathname[Len(pathname)]

\* the lookup by id alone, the owner compared afterwards and a mismatch answered 403
DELETE_lookup_forbidden(bks, auth, pathname, fault) ==
    IF auth.error \/ auth.session = Null THEN Unauthorized
    ELSE LET id == PopSegment(pathname)
             found == IF fault THEN [data |-> {}, error |-> FaultMsg]
                      ELSE single({r \in bks : r.id = id})
         IN IF ~TruthyVal(id) THEN Json(400, "error", "Book ID is required", <<>>)
            ELSE IF found.error # Null \/ found.data = {}
            THEN Json(404, "error", "Book not found or unauthorized", <<>>)
            ELSE IF \E r \in found.data : r.user_id # auth.session
            THEN Json(403, "error", "Forbidden", <<>>)
            ELSE PassThrough

\* DELETE /api/books, up to and including its first query; PassThrough when the
\* handler goes on to its second query
DELETE_lookup(bks, auth, pathname, fault) ==
    IF auth.error \/ auth.session = Null THEN Unauthorized
    ELSE LET id == PopSegment(pathname)
             found == IF fault THEN [data |-> {}, error |-> FaultMsg]
                      ELSE single(OwnRow(bks, id, auth.session))
         IN IF ~TruthyVal(id) THEN Json(400, "error", "Book ID is required", <<>>)
            ELSE IF found.error # Null \/ found.data = {}
            THEN Json(404, "error", "Book not found or unauthorized", <<>>)
            ELSE PassThrough

\* DELETE /api/books, its second query: .delete().eq('id', id)
DELETE_delete(bks, id, fault) ==
    IF fault THEN Out(BackendError(FaultMsg), bks)
    ELSE Out(Json(200, "success", "true", <<>>), {r \in bks : r.id # id})

\* ------------------------------------------------------------------ /api/books/{id}
\* DELETE /api/books/{id}
DELETE_id(bks, auth, id, fault) ==
    IF auth.error \/ auth.session = Null THEN Out(Unauthorized, bks)
    ELSE IF fault THEN Out(BackendError(FaultMsg), bks)
    ELSE Out(Json(200, "message", "Book deleted successfully", <<>>),
             bks \ OwnRow(bks, id, auth.session))

\* the updates object PATCH builds from the body; an absent key is NoStr / NoVal
Updates(body) ==
    [title |-> IF Truthy(body.title) THEN trim(body.title) ELSE NoStr,
     author |-> IF Truthy(body.author) THEN trim(body.author) ELSE NoStr,
     status |-> IF TruthyVal(body.status) /\ body.status \in ValidStatuses
                THEN body.status ELSE NoVal]
\* Object.keys(updates)
Keys(updates) ==
    {k \in {"title", "author"} : updates[k] # NoStr}
        \cup {k \in {"status"} : updates[k] # NoVal}
\* the update writing all three columns, the keys that are absent included
Update_allColumns(r, updates) ==
    [k \in DOMAIN r |-> IF k \in {"title", "author", "status"} THEN updates[k] ELSE r[k]]
\* .update(updates) on one row
Update(r, updates) ==
    [k \in DOMAIN r |-> IF k \in Keys(updates) THEN updates[k] ELSE r[k]]

\* PATCH /api/books/{id}
PATCH(bks, auth, id, body, fault) ==
    IF auth.error \/ auth.session = Null THEN Out(Unauthorized, bks)
    ELSE IF ~body.json THEN Out(InternalError, bks)
    ELSE IF Keys(Updates(body)) = {}
    THEN Out(Json(400, "error", "No valid fields to update", <<>>), bks)
    ELSE IF fault THEN Out(BackendError(FaultMsg), bks)
    ELSE LET hit == OwnRow(bks, id, auth.session)
             updated == {Update(r, Updates(body)) : r \in hit}
             one == single(updated)
             after == (bks \ hit) \cup updated
         IN IF one.error # Null THEN Out(BackendError(one.error), after)
            ELSE Out(Json(200, "book", "", OrderDesc(one.data)), after)

\* ------------------------------------------------------------------ requests
\* the identity a request's cookies carry
Creds == Users \cup {Null}
\* titles a client sends: absent, empty, white space only, padded
TitleInputs == {NoStr, <<>>, <<" ">>, <<" ", "a">>}
\* authors a client sends: absent, empty, plain
AuthorInputs == {NoStr, <<>>, <<"a">>}
\* status values a client sends in a body
StatusInputs == {NoVal, "foo", "completed", "wishlist"}
\* status and search parameters of a list request
StatusParams == {NoVal, "", "foo", "reading", "completed", "wishlist"}
SearchParams == {NoStr, <<"A">>}
\* a request body: json is whether request.json() yields an object; the keys a
\* client may add beside title, author and status are user_id, id and created_at
Body(json, title, author, status, uid, id, at) ==
    [json |-> json, title |-> title, author |-> author, status |-> status,
     user_id |-> uid, id |-> id, created_at |-> at]
NoBody == Body(FALSE, NoStr, NoStr, NoVal, NoVal, NoVal, 0)
\* bodies of the keys title, author and status alone
PlainBodies ==
    {Body(TRUE, t, a, s, NoVal, NoVal, 0) :
        t \in TitleInputs, a \in AuthorInputs, s \in StatusInputs}
\* bodies that also carry user_id, id and created_at, naming another owner, id and time
SpoofBodies ==
    {Body(TRUE, t, a, s, "u2", GenId(2), 9) :
        t \in {NoStr, <<" ", "a">>}, a \in {NoStr, <<"a">>}, s \in {NoVal, "foo", "completed"}}
Bodies == {NoBody} \cup PlainBodies \cup SpoofBodies

ApiBooks == <<"/", "api", "/", "books">>
BookPath(id) == ApiBooks \o <<"/", id>>
\* ids a client names: every id generated so far and the next one
TargetIds == IdsUpTo(nextId + 1)
\* pathnames handed to the collection's DELETE, which reads the id off the last segment
DeletePaths == {ApiBooks, ApiBooks \o <<"/">>} \cup {BookPath(id) : id \in TargetIds}
\* pathnames outside the API's routes
PagePaths ==
    {Root, <<"/", "dashboard">>, <<"/", "dashboard", "/", "x">>, <<"/", "dashboard", "z">>,
     <<"/", "auth", "/", "login">>, <<"/", "auth", "x">>, <<"/", "api", "x">>,
     <<"/", "x">>, <<"/", "x", "/", "api">>}

\* where id stands for the caller: never generated, deleted, a row of the caller, a
\* row of someone else
Target(bks, n, id, cred) ==
    IF \E r \in bks : r.id = id
    THEN IF OwnRow(bks, id, cred) # {} THEN "own" ELSE "other"
    ELSE IF id \in IdsUpTo(n) THEN "gone" ELSE "none"

\* no collection DELETE is between its queries
NoPending == [cred |-> Null, id |-> ""]
\* no response is on its way
Idle ==
    [op |-> "none", cred |-> Null, id |-> "", pre |-> "none", handled |-> FALSE,
     resp |-> PassThrough]

Init ==
    /\ books = {}
    /\ nextId = 0
    /\ pend = NoPending
    /\ last = Idle

\* the response goes out; handled is whether a route handler ran, pre where the
\* id stood when the request came in
Respond(op, cred, id, handled, resp) ==
    last' = [op |-> op, cred |-> cred, id |-> id, pre |-> Target(books, nextId, id, cred),
             handled |-> handled, resp |-> resp]

\* the client takes the response
Receive ==
    /\ last # Idle
    /\ last' = Idle
    /\ UNCHANGED <<books, nextId, pend>>

\* a page request (anything that is not a route of the API)
Page ==
    /\ last = Idle
    /\ \E cred \in Creds, mwFault \in BOOLEAN, pathname \in PagePaths :
        /\ Respond("PAGE", cred, "", FALSE, Edge(getSession(cred, mwFault), pathname))
        /\ UNCHANGED <<books, nextId, pend>>

\* an API request the middleware answers itself
Refused(op, pathnames) ==
    \E cred \in Creds, mwFault \in BOOLEAN, pathname \in pathnames :
        LET edge == Edge(getSession(cred, mwFault), pathname)
        IN /\ edge # PassThrough
           /\ Respond(op, cred, PopSegment(pathname), FALSE, edge)
           /\ UNCHANGED <<books, nextId, pend>>

\* the requests that reach a route handler: the middleware let them through
Admitted(cred, pathname) == Edge(getSession(cred, FALSE), pathname) = PassThrough

\* what each handler may hand back to a caller, over everything the request may carry
\* and every way its own getSession() and its query may fail
GETs(cred) ==
    {GET(books, getSession(cred, hFault), status, search, fault) :
        hFault \in BOOLEAN, status \in StatusParams, search \in SearchParams,
        fault \in BOOLEAN}
POSTs(cred) ==
    {POST(books, nextId, getSession(cred, hFault), body, fault) :
        hFault \in BOOLEAN, body \in Bodies, fault \in BOOLEAN}
PATCHes(cred, id) ==
    {PATCH(books, getSession(cred, hFault), id, body, fault) :
        hFault \in BOOLEAN, body \in Bodies, fault \in BOOLEAN}
DELETE_ids(cred, id) ==
    {DELETE_id(books, getSession(cred, hFault), id, fault) :
        hFault \in BOOLEAN, fault \in BOOLEAN}
DELETE_lookups(cred, pathname) ==
    {DELETE_lookup(books, getSession(cred, hFault), pathname, fault) :
        hFault \in BOOLEAN, fault \in BOOLEAN}

ReqGET ==
    /\ last = Idle
    /\ \/ Refused("GET", {ApiBooks})
       \/ \E cred \in Creds :
            /\ Admitted(cred, ApiBooks)
            /\ \E out \in GETs(cred) :
                /\ Respond("GET", cred, "", TRUE, out.resp)
                /\ books' = out.books
                /\ UNCHANGED <<nextId, pend>>

ReqPOST ==
    /\ last = Idle
    /\ \/ Refused("POST", {ApiBooks})
       \/ \E cred \in Creds :
            /\ Admitted(cred, ApiBooks)
            /\ \E out \in POSTs(cred) :
                /\ out.resp.code = 201 => nextId < MaxBooks
                /\ Respond("POST", cred, "", TRUE, out.resp)
                /\ books' = out.books
                /\ nextId' = IF out.resp.code = 201 THEN nextId + 1 ELSE nextId
                /\ UNCHANGED pend

ReqPATCH ==
    /\ last = Idle
    /\ \/ Refused("PATCH", {BookPath(id) : id \in TargetIds})
       \/ \E cred \in Creds, id \in TargetIds :
            /\ Admitted(cred, BookPath(id))
            /\ \E out \in PATCHes(cred, id) :
                /\ Respond("PATCH", cred, id, TRUE, out.resp)
                /\ books' = out.books
                /\ UNCHANGED <<nextId, pend>>

ReqDELETE_id ==
    /\ last = Idle
    /\ \/ Refused("DELETE_id", {BookPath(id) : id \in TargetIds})
       \/ \E cred \in Creds, id \in TargetIds :
            /\ Admitted(cred, BookPath(id))
            /\ \E out \in DELETE_ids(cred, id) :
                /\ Respond("DELETE_id", cred, id, TRUE, out.resp)
                /\ books' = out.books
                /\ UNCHANGED <<nextId, pend>>

\* DELETE /api/books up to its first query: answered, or left between its two queries
ReqDELETE ==
    /\ last = Idle
    /\ \/ Refused("DELETE", DeletePaths)
       \/ \E cred \in Creds, pathname \in DeletePaths :
            /\ Admitted(cred, pathname)
            /\ \E resp \in DELETE_lookups(cred, pathname) :
                IF resp # PassThrough
                THEN /\ Respond("DELETE", cred, PopSegment(pathname), TRUE, resp)
                     /\ UNCHANGED <<books, nextId, pend>>
                ELSE /\ pend = NoPending
                     /\ pend' = [cred |-> cred, id |-> PopSegment(pathname)]
                     /\ UNCHANGED <<books, nextId, last>>

\* DELETE /api/books, its second query and its response
ReqDELETE_finish ==
    /\ last = Idle
    /\ pend # NoPending
    /\ \E fault \in BOOLEAN :
        LET out == DELETE_delete(books, pend.id, fault)
        IN /\ Respond("DELETE", pend.cred, pend.id, TRUE, out.resp)
           /\ books' = out.books
           /\ pend' = NoPending
           /\ UNCHANGED nextId

Next ==
    \/ Receive
    \/ Page
    \/ ReqGET
    \/ ReqPOST
    \/ ReqPATCH
    \/ ReqDELETE_id
    \/ ReqDELETE
    \/ ReqDELETE_finish

Spec == Init /\ [][Next]_vars

\* ------------------------------------------------------------------ properties
\* the server is between requests: the next request meets the table as it is now
Ready == last = Idle
\* the rows a response carries
Carried(resp) == {resp.data[i] : i \in 1..Len(resp.data)}
\* the rows of the table that are not the caller's
Foreign(cred) == {r \in books : r.user_id # cred}

\* C1: whatever requests are made with the credentials of S, interleaved in any way
\* (the two queries of the collection DELETE included), no row of another owner is
\* changed or removed by a request made with S's credentials, and no response to S
\* carries such a row.
C1_Isolation ==
    [][/\ last' # Idle =>
            /\ Foreign(last'.cred) \subseteq books'
            /\ \A r \in Carried(last'.resp) : r.user_id = last'.cred
       /\ last' = Idle => books' = books]_vars
\* a collection DELETE got through both queries while another owner's row was there
C1_Witness ==
    /\ last.op = "DELETE" /\ last.resp.code = 200 /\ last.pre = "own"
    /\ Foreign(last.cred) # {}

\* C2: a row enters the table only by a POST, and its user_id is the identity of the
\* session that made the POST, whatever user_id the body names.
C2_OwnerIsCaller ==
    [][\A r \in books' :
          (\A q \in books : q.id # r.id) =>
             /\ last'.op = "POST" /\ last'.resp.code = 201
             /\ r.user_id = last'.cred
             /\ Carried(last'.resp) = {r}]_vars
\* u1 created a row with a body that names u2 as the owner
C2_Witness ==
    /\ last.op = "POST" /\ last.resp.code = 201 /\ last.cred = "u1"
    /\ \E body \in SpoofBodies :
          POST(books \ Carried(last.resp), nextId - 1, getSession("u1", FALSE), body, FALSE).resp
              = last.resp

\* C3: to an authenticated caller, PATCH /api/books/{id}, DELETE /api/books/{id} and
\* the collection DELETE answer the same (status and body) when the id names a row
\* of another owner as they do when no row has that id.
C3_SameSignal ==
    Ready =>
        \A S \in Users, r \in books, fault \in BOOLEAN :
            r.user_id # S =>
                LET auth == getSession(S, FALSE)
                    without == books \ {r}
                IN /\ \A body \in Bodies :
                        PATCH(books, auth, r.id, body, fault).resp
                            = PATCH(without, auth, r.id, body, fault).resp
                   /\ DELETE_id(books, auth, r.id, fault).resp
                        = DELETE_id(without, auth, r.id, fault).resp
                   /\ DELETE_lookup(books, auth, BookPath(r.id), fault)
                        = DELETE_lookup(without, auth, BookPath(r.id), fault)
\* a collection DELETE was answered for the id of another owner's row
C3_Witness ==
    last.op = "DELETE" /\ last.handled /\ last.pre = "other" /\ last.cred \in Users

\* a response that is neither the answer to a failed getSession() nor to a failed query
NoFault(resp) == resp.text # FaultMsg

\* C4: PATCH /api/books/{id} with a valid field, and DELETE /api/books/{id}, against
\* a row of another owner are answered 401 or 404 with an {error} body.
C4_DeniedIs401or404 ==
    (/\ last.op \in {"PATCH", "DELETE_id"} /\ last.handled /\ last.pre = "other"
     /\ last.cred \in Users /\ NoFault(last.resp)
     /\ last.resp.code # 400 /\ last.resp # InternalError)
        => last.resp.code \in {401, 404} /\ last.resp.kind = "error"

\* C5: a DELETE, by either handler, of an id whose row was deleted is answered with
\* the not-found outcome and leaves the table as it was.
C5_DeleteGoneIsNotFound ==
    (/\ last.op \in {"DELETE_id", "DELETE"} /\ last.handled /\ last.pre = "gone"
     /\ last.cred \in Users /\ NoFault(last.resp))
        => last.resp.code \in {401, 404} /\ last.resp.kind = "error"

\* C6: a list request of S with status v and no search is answered 200 with exactly
\* S's rows of status v when v is reading, completed or wishlist, and with exactly
\* all of S's rows when v is absent or anything else.
C6_FilterExact ==
    Ready =>
        \A S \in Users, v \in StatusParams :
            LET resp == GET(books, getSession(S, FALSE), v, NoStr, FALSE).resp
                mine == {r \in books : r.user_id = S}
                want == IF v \in {"reading", "completed", "wishlist"}
                        THEN {r \in mine : r.status = v}
                        ELSE mine
            IN /\ resp.code = 200 /\ resp.kind = "books"
               /\ Carried(resp) = want /\ Len(resp.data) = Cardinality(want)
\* a list was answered with one of the caller's two rows: the filter left one out
C6_Witness ==
    /\ last.op = "GET" /\ last.resp.code = 200 /\ Len(last.resp.data) = 1
    /\ Cardinality({r \in books : r.user_id = last.cred}) = 2

\* absent or empty
Blank(s) == s = NoStr \/ s = <<>>
\* C7: a POST whose title or author is absent or empty, or whose status is none of
\* reading, completed, wishlist, is answered 400 and inserts nothing; a PATCH whose
\* title and author are absent or empty and whose status is none of the three is
\* answered 400 and changes nothing.
C7_InvalidLeavesStore ==
    Ready =>
        \A S \in Users, body \in Bodies, fault \in BOOLEAN :
            LET auth == getSession(S, FALSE)
                badStatus == body.status \notin {"reading", "completed", "wishlist"}
            IN body.json =>
                /\ (Blank(body.title) \/ Blank(body.author) \/ badStatus) =>
                      POST(books, nextId, auth, body, fault)
                          = Out(POST(books, nextId, auth, body, fault).resp, books)
                      /\ POST(books, nextId, auth, body, fault).resp.code = 400
                /\ (Blank(body.title) /\ Blank(body.author) /\ badStatus) =>
                      \A id \in TargetIds :
                          /\ PATCH(books, auth, id, body, fault).books = books
                          /\ PATCH(books, auth, id, body, fault).resp.code = 400
\* a PATCH of the caller's own row was answered 400
C7_Witness ==
    last.op = "PATCH" /\ last.resp.code = 400 /\ last.pre = "own"

\* pathname is /<root> or lies under /<root>/
Under(pathname, root) ==
    \/ pathname = <<"/", root>>
    \/ Len(pathname) >= 3 /\ pathname[1] = "/" /\ pathname[2] = root /\ pathname[3] = "/"
\* the pathnames of the API's routes and of the pages
AllPaths == PagePaths \cup DeletePaths
\* C8: what the edge answers depends on whether there is a session and on the
\* pathname alone: no session under /dashboard, redirect to /auth/login; no session
\* under /api, 401 Unauthorized, no route handler run and nothing changed; a session
\* under /auth, redirect to /dashboard; everything else passes through.
C8_EdgePolicy ==
    /\ [](Ready =>
            \A cred \in Creds, mwFault \in BOOLEAN, pathname \in AllPaths :
                LET auth == getSession(cred, mwFault)
                IN Edge(auth, pathname) =
                     IF auth.session = Null /\ Under(pathname, "dashboard")
                     THEN Redirect("/auth/login")
                     ELSE IF auth.session = Null /\ Under(pathname, "api") THEN Unauthorized
                     ELSE IF auth.session # Null /\ Under(pathname, "auth")
                     THEN Redirect("/dashboard")
                     ELSE PassThrough)
    /\ [][(last' # Idle /\ ~last'.handled) => UNCHANGED <<books, nextId, pend>>]_vars
    /\ [][(last' # Idle /\ last'.handled) => last'.cred # Null]_vars
\* the edge answered an API request 401 while the table held a row
C8_Witness ==
    /\ last.op = "PATCH" /\ ~last.handled /\ last.resp = Unauthorized
    /\ books # {}

\* C9: every row of the table has a non-empty trimmed title, a non-empty trimmed
\* author and a status that is reading, completed or wishlist.
C9_RowsWellFormed ==
    \A r \in books :
        /\ r.title # <<>> /\ r.title # NoStr /\ trim(r.title) = r.title
        /\ r.author # <<>> /\ r.author # NoStr /\ trim(r.author) = r.author
        /\ r.status \in {"reading", "completed", "wishlist"}

\* C10: a PATCH answered 200 replaces the one row that has the id and is the
\* caller's by a row of the same id, user_id and created_at, in which title, author
\* and status are as before unless the body names a non-empty title or author or one
\* of the three status values; every other row stays.
C10_PatchFrame ==
    Ready =>
        \A S \in Users, id \in TargetIds, body \in Bodies, fault \in BOOLEAN :
            LET out == PATCH(books, getSession(S, FALSE), id, body, fault)
            IN out.resp.code = 200 =>
                \E r \in books, q \in out.books :
                    /\ r.id = id /\ r.user_id = S
                    /\ out.books = (books \ {r}) \cup {q}
                    /\ Carried(out.resp) = {q}
                    /\ q.id = r.id /\ q.user_id = r.user_id /\ q.created_at = r.created_at
                    /\ Blank(body.title) => q.title = r.title
                    /\ Blank(body.author) => q.author = r.author
                    /\ body.status \notin {"reading", "completed", "wishlist"}
                          => q.status = r.status
\* a PATCH was answered 200 while the table held a second row
C10_Witness ==
    /\ last.op = "PATCH" /\ last.resp.code = 200
    /\ Cardinality(books) = 2

\* getSession() as it answers a caller who holds no session
Sessionless == getSession(Null, FALSE)
\* what a caller without a session is answered on /api/books: by the middleware, and
\* by a route handler were the request to reach one
SessionlessAnswers ==
    {Edge(Sessionless, ApiBooks),
     GET(books, Sessionless, NoVal, NoStr, FALSE).resp,
     DELETE_id(books, Sessionless, GenId(1), FALSE).resp}
\* C11: a failure of getSession() is answered differently from the absence of a
\* session: no response to a caller who holds a session, whether it comes from the
\* middleware or from a route handler, is the 401 Unauthorized that a caller without
\* a session is answered.
C11_FaultIsDistinct ==
    last.cred \in Users => last.resp \notin SessionlessAnswers

====
